---- MODULE Spec2Model ----
(***************************************************************************)
(* Model of crypto_quiz.py: the QuizApp session (score, question_index,    *)
(* the StringVar behind the four radio buttons, the buttons themselves,    *)
(* the question label and the root window) driven by the two user events   *)
(* the GUI offers: clicking a radio button and pressing "Submit Answer".   *)
(*                                                                         *)
(* Python indices are kept 0-based as in the source; TLA+ sequences are    *)
(* 1-based, so quiz_data[i] of the source is quiz_data[i + 1] here.        *)
(***************************************************************************)
EXTENDS Integers, Sequences, FiniteSets, TLC

(* ---- bounds of the model ---------------------------------------------- *)
MaxQuizLen == 2      \* longest generated quiz
MaxPicks   == 2      \* how many of the latest clicks the history keeps

(* ---- program constants ------------------------------------------------ *)
NumButtons == 4      \* for _ in range(4)

\* What tk.StringVar holds after set(None): Tcl stores str(None).
NoneStr == "None"
\* The value of a fresh tk.StringVar() and of every button built with value="".
EmptyStr == ""

(* ---- the quiz --------------------------------------------------------- *)
\* The module-level list of the source, verbatim.
ShippedQuiz ==
  << [question |-> "What does 'HODL' mean in crypto trading?",
      options  |-> << "Hold On for Dear Life", "Hourly Dollar Limit",
                      "High Order Deadline", "Help Our Digital Ledger" >>,
      answer   |-> "Hold On for Dear Life"],
     [question |-> "What is a 'whale' in cryptocurrency?",
      options  |-> << "A newbie trader", "A large holder of cryptocurrency",
                      "A mining computer", "A fraudulent coin" >>,
      answer   |-> "A large holder of cryptocurrency"],
     [question |-> "What does 'FOMO' stand for?",
      options  |-> << "Fear of Missing Out", "Funding of Market Orders",
                      "Future Options Market Order",
                      "Fast Operational Market Offering" >>,
      answer   |-> "Fear of Missing Out"] >>

\* Other contents the list can be given ("Add more questions here..."):
\* every quiz of at most MaxQuizLen questions whose option lists are the
\* lists of distinct strings over two option strings, well-formed or not
\* (one option only, or an answer that is not among the options).
Opts == {"A", "B"}

SeqsUpTo(S, lo, hi) == UNION { [1..k -> S] : k \in lo..hi }

OptionLists ==
  { o \in SeqsUpTo(Opts, 1, Cardinality(Opts)) :
      \A i, j \in DOMAIN o : i # j => o[i] # o[j] }

Questions ==
  { [question |-> "Q", options |-> o, answer |-> a] : o \in OptionLists, a \in Opts }

\* A quiz whose second question has fewer options than its first.
MixedQuiz ==
  << [question |-> "Q", options |-> << "A", "B", "C" >>, answer |-> "A"],
     [question |-> "Q", options |-> << "A", "B" >>, answer |-> "B"] >>

Quizzes == SeqsUpTo(Questions, 0, MaxQuizLen) \cup {ShippedQuiz, MixedQuiz}

(* ---- state ------------------------------------------------------------ *)
VARIABLES
  quiz_data,       \* the module-level question list
  score,           \* self.score
  question_index,  \* self.question_index (0-based)
  var,             \* the string held by self.var
  option_buttons,  \* self.option_buttons: text and value of each radio button
  question_label,  \* what self.question_label shows
  root_alive,      \* FALSE once self.root.destroy() has run
  results,         \* the showinfo dialogs shown so far, as [score, total]
  outcome,         \* what the last handler did
  rendered,        \* history: every question_label.config, in order
  submitted,       \* history: the selection read by each accepted submit
  picks            \* history: the latest radio clicks since the last load

vars == << quiz_data, score, question_index, var, option_buttons,
           question_label, root_alive, results, outcome, rendered,
           submitted, picks >>

\* The fields of the application object that load_question and show_result
\* read and write, as one record.
Self ==
  [ score |-> score, question_index |-> question_index, var |-> var,
    option_buttons |-> option_buttons, question_label |-> question_label,
    root_alive |-> root_alive, results |-> results, rendered |-> rendered ]

(* ---- show_result ------------------------------------------------------ *)
show_result_nodestroy(self, qd) ==
  [ self EXCEPT
      !.results = Append(@, [score |-> self.score, total |-> Len(qd)]) ]

show_result(self, qd) ==
  [ self EXCEPT
      !.results    = Append(@, [score |-> self.score, total |-> Len(qd)]),
      !.root_alive = FALSE ]

(* ---- load_question ---------------------------------------------------- *)
\* if self.question_index < len(quiz_data)
HasMore_early(idx, qd) == idx + 1 < Len(qd)

HasMore(idx, qd) == idx < Len(qd)

\* self.var.set(None): the StringVar stores str(None)
ClearedVar == NoneStr

\* for i, option in enumerate(q["options"]): config(text=option, value=option)
\* Buttons past the end of the option list keep what they had.
ConfigButtons(btns, options) ==
  [ b \in 1..NumButtons |->
      IF b <= Len(options)
        THEN [text |-> options[b], value |-> options[b]]
        ELSE btns[b] ]

load_question(self, qd) ==
  IF HasMore(self.question_index, qd)
    THEN LET q   == qd[self.question_index + 1]
             lbl == [num |-> self.question_index + 1, q |-> q]
         IN [ self EXCEPT
                !.question_label = lbl,
                !.rendered       = Append(@, lbl),
                !.var            = ClearedVar,
                !.option_buttons = ConfigButtons(@, q.options) ]
    ELSE show_result(self, qd)

(* ---- __init__ --------------------------------------------------------- *)
NoLabel == [num |-> 0, q |-> [question |-> "", options |-> << >>, answer |-> ""]]

\* The fields as __init__ sets them before it calls load_question.
Fresh ==
  [ score |-> 0, question_index |-> 0, var |-> EmptyStr,
    option_buttons |-> [b \in 1..NumButtons |-> [text |-> "", value |-> EmptyStr]],
    question_label |-> NoLabel, root_alive |-> TRUE,
    results |-> << >>, rendered |-> << >> ]

Constructed_noload(qd) == Fresh

Constructed(qd) == load_question(Fresh, qd)

Init ==
  /\ quiz_data \in Quizzes
  /\ LET s == Constructed(quiz_data)
     IN /\ score = s.score
        /\ question_index = s.question_index
        /\ var = s.var
        /\ option_buttons = s.option_buttons
        /\ question_label = s.question_label
        /\ root_alive = s.root_alive
        /\ results = s.results
        /\ rendered = s.rendered
  /\ outcome = "constructed"
  /\ submitted = << >>
  /\ picks = << >>

(* ---- clicking a radio button ------------------------------------------ *)
\* Radiobutton(variable=self.var, value=v): a click stores v in the variable.
radio_select_sticky(cur, value) == IF cur \in {NoneStr, EmptyStr} THEN value ELSE cur

radio_select(cur, value) == value

LastN(s, n) == IF Len(s) <= n THEN s ELSE SubSeq(s, Len(s) - n + 1, Len(s))

select_option ==
  /\ root_alive
  /\ \E b \in 1..NumButtons :
       /\ var' = radio_select(var, option_buttons[b].value)
       /\ picks' = LastN(Append(picks, option_buttons[b].value), MaxPicks)
  /\ outcome' = "selected"
  /\ UNCHANGED << quiz_data, score, question_index, option_buttons,
                  question_label, root_alive, results, rendered, submitted >>

(* ---- submit_answer ---------------------------------------------------- *)
\* if not selected: only the empty string is falsy
NotSelected_inverted(selected) == selected # EmptyStr

NotSelected(selected) == selected = EmptyStr

\* quiz_data[self.question_index]: the question, or IndexError when the
\* index is outside 0 .. len(quiz_data) - 1 (the index is never negative)
IndexError == [question |-> "IndexError", options |-> << >>, answer |-> "IndexError"]

Lookup_clamped(qd, idx) ==
  IF qd = << >> THEN IndexError
  ELSE IF idx < Len(qd) THEN qd[idx + 1] ELSE qd[Len(qd)]

Lookup(qd, idx) == IF idx >= 0 /\ idx < Len(qd) THEN qd[idx + 1] ELSE IndexError

\* if selected == correct_answer: self.score += 1
Gain_inverted(selected, correct_answer) == IF selected # correct_answer THEN 1 ELSE 0

Gain_penalty(selected, correct_answer) == IF selected = correct_answer THEN 1 ELSE -1

Gain(selected, correct_answer) == IF selected = correct_answer THEN 1 ELSE 0

\* self.question_index += 1
NextIndex_skip(idx) == idx + 2

NextIndex(idx) == idx + 1

submit_answer ==
  LET selected == var IN
  IF NotSelected(selected)
    THEN \* showwarning and return; with the root gone the dialog may fail
         /\ outcome' \in (IF root_alive THEN {"showwarning"}
                                        ELSE {"showwarning", "TclError"})
         /\ UNCHANGED << quiz_data, score, question_index, var, option_buttons,
                         question_label, root_alive, results, rendered,
                         submitted, picks >>
    ELSE
      LET q == Lookup(quiz_data, question_index) IN
      IF q = IndexError
        THEN /\ outcome' = "IndexError"
             /\ UNCHANGED << quiz_data, score, question_index, var,
                             option_buttons, question_label, root_alive,
                             results, rendered, submitted, picks >>
        ELSE
          LET correct_answer == q.answer
              s == load_question(
                     [ Self EXCEPT
                         !.score = @ + Gain(selected, correct_answer),
                         !.question_index = NextIndex(@) ],
                     quiz_data)
          IN /\ score' = s.score
             /\ question_index' = s.question_index
             /\ var' = s.var
             /\ option_buttons' = s.option_buttons
             /\ question_label' = s.question_label
             /\ root_alive' = s.root_alive
             /\ results' = s.results
             /\ rendered' = s.rendered
             /\ submitted' = Append(submitted, selected)
             /\ picks' = << >>
             /\ outcome' = "accepted"
             /\ UNCHANGED quiz_data

Next == select_option \/ submit_answer

Spec == Init /\ [][Next]_vars

(* ---- the program as run ------------------------------------------------ *)
\* Button(command=self.submit_answer): the button exists, and can be pressed,
\* only until root.destroy() has run.
press_submit == root_alive /\ submit_answer

\* root.mainloop(): the events Tk delivers are radio clicks and button
\* presses; nothing else calls into the application.
GuiNext == select_option \/ press_submit

GuiSpec == Init /\ [][GuiNext]_vars

(* ---- the user keeps answering ------------------------------------------ *)
\* A click on a radio button that carries an option (not a blank one).
select_real == select_option /\ ~NotSelected(var')

\* A press of "Submit Answer" that is accepted.
accepted_submit == submit_answer /\ outcome' = "accepted"

\* The program has no scheduler of its own: every step is a user event.  The
\* user who keeps answering clicks an option whenever none is selected and
\* does not leave a selection unsubmitted for ever.
LiveSpec ==
  /\ Init
  /\ [][Next]_vars
  /\ WF_vars(select_real)
  /\ SF_vars(accepted_submit)

(* ======================================================================= *)
(* Properties                                                              *)
(* ======================================================================= *)

\* A question is awaiting an answer: the window exists and a question is shown.
Awaiting == root_alive /\ question_index < Len(quiz_data)

\* show_result has run.
Completed == ~root_alive

\* The step is a call of submit_answer that did something observable.
SubmitStep == outcome' \in {"showwarning", "accepted", "IndexError", "TclError"}

\* The number of questions whose submitted selection equals the answer.
Matches(sub, qd) ==
  Cardinality({ i \in 1..Len(sub) : i <= Len(qd) /\ sub[i] = qd[i].answer })

(* ---- C1 --------------------------------------------------------------- *)
\* C1: while a question is awaiting an answer and no option has been picked
\* since it was loaded, a submit takes the no-selection branch: it shows the
\* warning and leaves question_index and score as they were.
C1_NoPickSubmitRejected ==
  [][ (Awaiting /\ picks = << >> /\ SubmitStep)
        => /\ outcome' = "showwarning"
           /\ question_index' = question_index
           /\ score' = score ]_vars

(* ---- C2 --------------------------------------------------------------- *)
\* C2: the score, and the score reported at completion, is the number of
\* questions whose selection at the moment of the submit equals the correct
\* answer; a matching submit adds exactly 1 and any other adds 0.
C2_ScoreCountsMatches ==
  /\ [](/\ score = Matches(submitted, quiz_data)
        /\ \A k \in DOMAIN results :
             results[k].score = Matches(submitted, quiz_data))
  /\ [][ outcome' = "accepted" /\ Len(submitted') = Len(submitted) + 1
           => score' - score =
                (IF submitted'[Len(submitted')]
                      = quiz_data[Len(submitted')].answer THEN 1 ELSE 0) ]_vars

\* The shipped three-question quiz answered right, wrong, right: 2 out of 3.
C2_Witness ==
  /\ quiz_data = ShippedQuiz
  /\ Completed
  /\ Len(submitted) = 3
  /\ submitted[1] = quiz_data[1].answer
  /\ submitted[2] # quiz_data[2].answer
  /\ submitted[3] = quiz_data[3].answer
  /\ results = << [score |-> 2, total |-> 3] >>

(* ---- C3 --------------------------------------------------------------- *)
\* C3: in every reachable state 0 <= score <= question_index, and no step
\* decreases score.
C3_ScoreBounded ==
  /\ [](0 <= score /\ score <= question_index)
  /\ [][ score' >= score ]_vars

\* Some answers right and some wrong, after a step that raised the score.
C3_Witness ==
  /\ score >= 1
  /\ score < question_index
  /\ outcome = "accepted"
  /\ submitted[Len(submitted)] = quiz_data[Len(submitted)].answer

(* ---- C4 --------------------------------------------------------------- *)
\* C4: the session is Completed exactly when len(quiz) submits have been
\* accepted, not before; then question_index = len(quiz) and the reported
\* total is len(quiz).  A rejected submit is not one of the accepted ones and
\* does not complete the session.
C4_CompletedAfterLenSubmits ==
  /\ [](/\ Completed <=> Len(submitted) = Len(quiz_data)
        /\ Completed => /\ question_index = Len(quiz_data)
                        /\ Len(results) = 1
                        /\ results[1].total = Len(quiz_data))
  /\ [][ outcome' = "showwarning"
           => submitted' = submitted /\ root_alive' = root_alive ]_vars

\* A two-question quiz completed by its second accepted submit.
C4_Witness ==
  /\ Completed
  /\ Len(quiz_data) = 2
  /\ Len(submitted) = 2
  /\ outcome = "accepted"
  /\ results[1].total = 2

C6_LastSelectionCounts ==
  [][ /\ outcome' = "selected"
        => score' = score /\ question_index' = question_index
      /\ (outcome' = "accepted" /\ picks # << >>)
        => /\ submitted' = Append(submitted, picks[Len(picks)])
           /\ score' = score
                + (IF picks[Len(picks)] = quiz_data[question_index + 1].answer
                     THEN 1 ELSE 0) ]_vars

\* The correct option was clicked and then a different, wrong one.
C6_Witness ==
  /\ Awaiting
  /\ Len(picks) = 2
  /\ picks[1] = quiz_data[question_index + 1].answer
  /\ picks[2] # picks[1]
  /\ picks[2] # EmptyStr
  /\ var = picks[2]
  /\ outcome = "selected"

(* ---- C7 --------------------------------------------------------------- *)
Range(s) == { s[i] : i \in DOMAIN s }

\* correct answer not among the options, or fewer than 2 options
Malformed(q) == q.answer \notin Range(q.options) \/ Len(q.options) < 2

\* C7: a quiz containing a malformed question is rejected at construction:
\* no session over it shows a question or accepts a submit.
C7_MalformedQuizRejected ==
  (\E i \in DOMAIN quiz_data : Malformed(quiz_data[i]))
    => /\ ~Awaiting
       /\ rendered = << >>
       /\ submitted = << >>

(* ---- C8 --------------------------------------------------------------- *)
\* C8: the result is reported exactly once: never while question_index <
\* len(quiz), from the moment question_index equals len(quiz), and never a
\* second time afterwards.
C8_ResultReportedOnce ==
  /\ [](/\ Len(results) <= 1
        /\ results # << >> <=> question_index = Len(quiz_data))
  /\ [][ results # << >> => results' = results ]_vars

\* The last accepted submit of a non-empty quiz has just reported the result.
C8_Witness ==
  /\ Len(results) = 1
  /\ Len(quiz_data) >= 1
  /\ question_index = Len(quiz_data)
  /\ outcome = "accepted"

(* ---- C9 --------------------------------------------------------------- *)
\* The labels shown for questions 1 .. n of the quiz, in list order.
InOrder(qd, n) == [ k \in 1..n |-> [num |-> k, q |-> qd[k]] ]

Min(a, b) == IF a <= b THEN a ELSE b

\* C9: question_index starts at 0, changes only in an accepted submit and
\* then by exactly +1; the questions rendered so far are the first ones of
\* the list, in list order, each once.
C9_SequentialProgress ==
  /\ question_index = 0
  /\ [][ question_index' # question_index
           => outcome' = "accepted" /\ question_index' = question_index + 1 ]_vars
  /\ [](rendered = InOrder(quiz_data, Min(question_index + 1, Len(quiz_data))))

\* The third question of the shipped quiz is on screen after the first two.
C9_Witness ==
  /\ quiz_data = ShippedQuiz
  /\ question_index = 2
  /\ Len(rendered) = 3
  /\ question_label = [num |-> 3, q |-> ShippedQuiz[3]]

(* ---- C10 -------------------------------------------------------------- *)
\* C10: right after load_question has shown a question, the selection is
\* what the submit check treats as nothing selected.
C10_SelectionClearedOnLoad ==
  (Awaiting /\ outcome \in {"constructed", "accepted"}) => NotSelected(var)

(* ---- C11 -------------------------------------------------------------- *)
\* C11: while a question is awaiting an answer the session is not stuck (an
\* option can be clicked, and with an option selected the submit is accepted
\* and moves on to the next question or to completion), and a user who keeps
\* selecting and submitting eventually completes the session.
C11_Termination ==
  /\ [](Awaiting => ENABLED select_real)
  /\ [](Awaiting /\ ~NotSelected(var) => ENABLED accepted_submit)
  /\ [][ outcome' = "accepted"
           => \/ question_index' = question_index + 1 /\ Awaiting'
              \/ Completed' ]_vars
  /\ <>Completed

\* A non-empty quiz completed by a submit of a clicked option.
C11_Witness ==
  /\ Completed
  /\ Len(quiz_data) >= 1
  /\ Len(submitted) = Len(quiz_data)
  /\ submitted[Len(submitted)] \in Range(quiz_data[Len(quiz_data)].options)

(* ---- C13 -------------------------------------------------------------- *)
\* The values the four radio buttons can store in the variable.
ButtonValues == { option_buttons[b].value : b \in 1..NumButtons }

\* Every question has between 2 and 4 options.
TwoToFourOptions ==
  \A i \in DOMAIN quiz_data : Len(quiz_data[i].options) \in 2..NumButtons

\* C13: while a question is awaiting an answer the values selectable through
\* the radio buttons are exactly its options; in a quiz whose questions have
\* 2 to 4 options no value of the previous question stays selectable, and
\* every submitted selection is none or an option of its question.
C13_ButtonsAreCurrentOptions ==
  /\ Awaiting => ButtonValues = Range(quiz_data[question_index + 1].options)
  /\ (TwoToFourOptions /\ Awaiting /\ question_index >= 1)
       => ButtonValues \cap Range(quiz_data[question_index].options)
            \subseteq Range(quiz_data[question_index + 1].options)
  /\ TwoToFourOptions
       => \A k \in DOMAIN submitted :
            submitted[k] \in Range(quiz_data[k].options) \cup {NoneStr, EmptyStr}

\* C13, the part of it about earlier questions only: an option of the
\* previous question that the current one does not have is not selectable.
C13_NoStaleOption ==
  (TwoToFourOptions /\ Awaiting /\ question_index >= 1)
    => ButtonValues \cap Range(quiz_data[question_index].options)
         \subseteq Range(quiz_data[question_index + 1].options)

(* ---- C14 -------------------------------------------------------------- *)
\* C14: in the running program every read of quiz_data[question_index] by
\* submit_answer is in range, question_index never exceeds len(quiz_data),
\* and submit_answer runs only while the window exists.
C14_IndexInRange ==
  /\ [](/\ 0 <= question_index
        /\ question_index <= Len(quiz_data)
        /\ root_alive => question_index < Len(quiz_data)
        /\ outcome # "IndexError")
  /\ [][ SubmitStep => root_alive ]_vars

\* The last question's answer was read at index len - 1 and the window closed.
C14_Witness ==
  /\ Len(quiz_data) >= 2
  /\ question_index = Len(quiz_data)
  /\ outcome = "accepted"
  /\ ~root_alive

(* ---- C15 -------------------------------------------------------------- *)
\* C15: a session over an empty quiz is completed by its construction: no
\* question is ever rendered, no submit is ever accepted, and the one result
\* reported is score 0 out of total 0.
C15_EmptyQuizCompletes ==
  quiz_data = << >>
    => /\ Completed
       /\ rendered = << >>
       /\ submitted = << >>
       /\ outcome # "accepted"
       /\ results = << [score |-> 0, total |-> 0] >>

\* A submit tried on the session over the empty quiz, and not accepted.
C15_Witness ==
  /\ quiz_data = << >>
  /\ outcome = "showwarning"
  /\ results = << [score |-> 0, total |-> 0] >>
  /\ question_index = 0

====
